---- MODULE Spec2Model ----
(***************************************************************************)
(* concurrency_utils: the three task queues (mpmc_blocking_queue,          *)
(* spmc_blocking_queue, spmc_queue) and deferred_thread_pool.              *)
(*                                                                         *)
(* Spec / FairSpec : one pool object, its worker threads and the single    *)
(*                   thread that calls the pool's public interface.        *)
(* FillDrainSpec   : one queue object; a producer pushes, then any number  *)
(*                   of threads call try_pop concurrently.                 *)
(* MpmcSpec        : one mpmc_blocking_queue; every thread calls any of    *)
(*                   the five operations at any time.                      *)
(* TwoProducerSpec : the pool over an mpmc_blocking_queue, with a second   *)
(*                   thread pushing during run_tasks_and_wait().           *)
(*                                                                         *)
(* A step of the model is one shared-memory access of the source (an       *)
(* atomic load/store/fetch_add, a mutex acquisition, a condition-variable  *)
(* wait or notify) or one critical section run under queue_mutex.          *)
(***************************************************************************)
EXTENDS Integers, Sequences, FiniteSets, TLC

\* ------------------------------------------------------------------ bounds
MaxThreads == 2     \* largest thread count a constructor / reset is given
MaxTasks == 2       \* tasks pushed over the life of the pool
MaxCalls == 2       \* run_tasks_and_wait / reset / wait_and_exit calls made
MaxQThreads == 2    \* threads using a bare queue
MaxItems == 3       \* elements pushed into a bare queue
MaxExtraPops == 2   \* try_pop calls beyond the number of elements pushed
MaxMpmcCalls == 5   \* operations called on the mpmc_blocking_queue
MaxSeqCalls == 6    \* operations one thread calls on a queue in a quiesced phase
MaxRaceCalls == 5   \* operations called while clear() races with readers

Variants == {"mpmc_blocking", "spmc_blocking", "spmc_nonblocking"}
Workers == 1..MaxThreads
TaskIds == 1..MaxTasks
QThreads == 1..MaxQThreads
\* the single producer thread of the spmc variants
Producer == CHOOSE t \in QThreads : \A u \in QThreads : t <= u
CallerId == MaxThreads + 1   \* owner tag of run_mutex held by the caller

VARIABLES
    variant,          \* queue_type template argument
    tasks,            \* the queue: [data, next_slot]
    thread_count,     \* std::size_t thread_count
    threads,          \* threads.size(); worker i is the i-th element
    stop,             \* std::atomic_bool stop
    run_mutex,        \* 0 = free, w = held by worker w, CallerId = by caller
    process_tasks,    \* std::atomic_bool process_tasks
    active_threads,   \* std::atomic_size_t active_threads
    wpc,              \* position of each worker in worker()
    wtask,            \* worker's local 'task' (0: none popped)
    wread,            \* spmc_queue::try_pop local 'read' of each worker
    cpc,              \* position of the calling thread
    cstk,             \* return addresses of the calling thread
    ccur,             \* run_tasks_and_wait local currently_active_threads
    cn,               \* in_thread_count argument
    ci,               \* loop index in create_threads / destroy_threads
    ctor,             \* which constructor built the pool
    npushed,          \* number of push_task calls so far (task ids 1..npushed)
    execd,            \* how many times each task has been invoked
    armed,            \* tasks pushed before the latest process_tasks = true
    noWorker,         \* tasks pushed while the pool had no worker thread
    calls,            \* API calls made so far (bounded by MaxCalls)
    queue_mutex,      \* bare queue: 0 = free, t = held by thread t
    qpc,              \* bare queue: position of each thread in its operation
    qarg,             \* bare queue: the element a thread pushes
    qread,            \* bare queue: spmc_queue::try_pop local 'read'
    qret,             \* bare queue: value of a thread's last empty()/size()
    qlen,             \* bare queue: data.size() as read by try_pop's bounds test
    producer,         \* producer[i]: the thread that pushed element i
    poplog,           \* the elements returned by try_pop, in order
    popcalls,         \* try_pop calls made by each thread
    qfail,            \* number of try_pop calls that returned false
    cleared,          \* elements removed by clear()
    qops,             \* bare queue: clear / empty / size calls made so far
    gen               \* spmc_queue: history of the generation since the last clear

poolVars == <<thread_count, threads, stop, run_mutex, process_tasks, active_threads>>
workerVars == <<wpc, wtask, wread>>
callerVars == <<cpc, cstk, ccur, cn, ci>>
ghostVars == <<ctor, npushed, execd, armed, noWorker, calls>>
queueVars == <<queue_mutex, qpc, qarg, qread, qret, qlen>>
logVars == <<producer, poplog, popcalls, qfail, cleared, qops, gen>>
harnessVars == <<queueVars, logVars>>
vars == <<variant, tasks, poolVars, workerVars, callerVars, ghostVars, harnessVars>>

\* ------------------------------------------------------------------ queues
EmptyQueue == [data |-> <<>>, next_slot |-> 0]

\* push(const T& f): data.push_back(f) in all three variants
push(q, f) == [q EXCEPT !.data = Append(@, f)]

\* mutant: size() reports the length of the backing vector
nb_size_of_len(index, container_size) == container_size

\* spmc_queue::size(): if(index < container_size) return container_size - index;
\* return 0
nb_size_of(index, container_size) ==
    IF index < container_size THEN container_size - index ELSE 0

\* spmc_queue::size(): index = next_slot.load(); container_size = data.size()
nb_size(q) == nb_size_of(q.next_slot, Len(q.data))

\* size()
size(v, q) == IF v = "spmc_nonblocking" THEN nb_size(q) ELSE Len(q.data)

\* empty(): spmc_queue returns size() == 0, the deque variants data.empty()
empty(v, q) == IF v = "spmc_nonblocking" THEN nb_size(q) = 0 ELSE q.data = <<>>

\* mutant: the newest element is taken (pop_back for pop_front)
blocking_try_pop_back(q) ==
    IF q.data = <<>>
    THEN [ok |-> FALSE, f |-> 0, q |-> q]
    ELSE [ok |-> TRUE, f |-> q.data[Len(q.data)],
          q |-> [q EXCEPT !.data = SubSeq(@, 1, Len(@) - 1)]]

\* mutant: the oldest element is copied out but not removed
blocking_try_pop_keep(q) ==
    IF q.data = <<>>
    THEN [ok |-> FALSE, f |-> 0, q |-> q]
    ELSE [ok |-> TRUE, f |-> Head(q.data), q |-> q]

\* mpmc_blocking_queue / spmc_blocking_queue try_pop, the section under
\* queue_mutex: [ok, f, q]
blocking_try_pop(q) ==
    IF q.data = <<>>
    THEN [ok |-> FALSE, f |-> 0, q |-> q]
    ELSE [ok |-> TRUE, f |-> Head(q.data), q |-> [q EXCEPT !.data = Tail(@)]]

\* mutant: the cursor is read but not advanced
nb_fetch_keep(q) == [read |-> q.next_slot, q |-> q]

\* spmc_queue::try_pop, first statement: read = next_slot.fetch_add(1)
nb_fetch_add(q) == [read |-> q.next_slot, q |-> [q EXCEPT !.next_slot = @ + 1]]

\* spmc_queue::try_pop, the test read < data.size()
nb_hit(q, read) == read < Len(q.data)

\* mutant: a miss rewinds the cursor to the start
nb_reset_zero(q) == [q EXCEPT !.next_slot = 0]

\* mutant: a miss leaves the cursor at the value fetch_add produced
nb_reset_none(q) == q

\* mutant: a miss stores one past the length
nb_reset_past(q) == [q EXCEPT !.next_slot = Len(q.data) + 1]

\* mutant: a miss takes back its own increment
nb_reset_back(q) == [q EXCEPT !.next_slot = @ - 1]

\* spmc_queue::try_pop, miss branch: next_slot = data.size()
nb_reset(q) == [q EXCEPT !.next_slot = Len(q.data)]

\* the miss branch when the build reuses the data.size() of the bounds test
\* (no synchronisation separates the two reads)
nb_reset_seen(q, seen) == [q EXCEPT !.next_slot = seen]

\* clear() of the deque variants; first statement of spmc_queue::clear()
clear_data(q) == [q EXCEPT !.data = <<>>]

\* mutant: spmc_queue::clear() leaves the cursor where it was
clear_slot_keeps(q) == q

\* spmc_queue::clear(), second statement: next_slot = 0
clear_slot(q) == [q EXCEPT !.next_slot = 0]

\* mutant: spmc_queue::clear() stores the cursor before it empties the vector
clear_order_slot_first(v) ==
    IF v = "spmc_nonblocking" THEN <<"slot", "data">> ELSE <<"data">>

\* the statements of clear(), in program order
clear_order(v) ==
    IF v = "spmc_nonblocking" THEN <<"data", "slot">> ELSE <<"data">>

\* one statement of clear()
ClearStmt(q, s) == IF s = "data" THEN clear_data(q) ELSE clear_slot(q)

\* ------------------------------------------------------------- the pool
Max(a, b) == IF a >= b THEN a ELSE b
Min(a, b) == IF a <= b THEN a ELSE b
Elems(seq) == {seq[i] : i \in 1..Len(seq)}
NoDup(seq) == \A i, j \in 1..Len(seq) : i # j => seq[i] # seq[j]

SetW(w, pc) == wpc' = [wpc EXCEPT ![w] = pc]

\* should_run.notify_all(): every thread blocked in wait() must reacquire
\* run_mutex and re-evaluate the predicate
notify_all(pcs) == [w \in Workers |-> IF pcs[w] = "blocked" THEN "lock" ELSE pcs[w]]

Call(target, ret) == cpc' = target /\ cstk' = <<ret>> \o cstk
Return == cpc' = Head(cstk) /\ cstk' = Tail(cstk)
Goto(target) == cpc' = target /\ cstk' = cstk

\* spmc_queue, nothing has happened since construction or the last clear():
\*   claimed  indices fetch_add has handed out
\*   hit      those of them that were below data.size() when handed out
\*   failed   a try_pop has returned false
\*   late     elements pushed after a try_pop returned false
\*   stale    a miss stored a length older than the current one
\*   early    a push completed while a try_pop was between its fetch_add
\*            and its bounds test
\*   old      elements in the vector when the latest clear() was called
\*   byclear  the cursor holds the 0 stored by the latest clear()
\*   saw      threads whose latest read of the cursor returned that 0
GenInit ==
    [claimed |-> {}, hit |-> {}, failed |-> FALSE, late |-> {}, stale |-> FALSE,
     early |-> FALSE, old |-> {}, byclear |-> FALSE, saw |-> {}]

\* no thread is using a bare queue
HarnessIdle ==
    /\ queue_mutex = 0
    /\ qpc = [t \in QThreads |-> [op |-> "none", at |-> "idle"]]
    /\ qarg = [t \in QThreads |-> 0]
    /\ qread = [t \in QThreads |-> 0]
    /\ qret = [t \in QThreads |-> 0]
    /\ qlen = [t \in QThreads |-> 0]
    /\ producer = <<>>
    /\ poplog = <<>>
    /\ popcalls = [t \in QThreads |-> 0]
    /\ qfail = 0
    /\ cleared = {}
    /\ qops = 0
    /\ gen = GenInit

\* the members of a pool before a constructor body runs
PoolFields ==
    /\ threads = 0
    /\ stop = FALSE
    /\ run_mutex = 0
    /\ process_tasks = FALSE
    /\ active_threads = 0
    /\ wpc = [w \in Workers |-> "none"]
    /\ wtask = [w \in Workers |-> 0]
    /\ wread = [w \in Workers |-> 0]
    /\ ccur = 0
    /\ ci = 0
    /\ npushed = 0
    /\ execd = [t \in TaskIds |-> 0]
    /\ armed = 0
    /\ noWorker = {}
    /\ calls = 0

\* deferred_thread_pool() leaves thread_count 0 and creates no thread;
\* deferred_thread_pool(n) sets thread_count{n} and enters create_threads()
Init ==
    /\ variant \in Variants
    /\ tasks = EmptyQueue
    /\ HarnessIdle
    /\ PoolFields
    /\ \/ /\ ctor = "default"
          /\ thread_count = 0
          /\ cn = 0
          /\ cpc = "idle"
          /\ cstk = <<>>
       \/ /\ ctor = "sized"
          /\ cn \in 0..MaxThreads
          /\ thread_count = cn
          /\ cpc = "create_begin"
          /\ cstk = <<"idle">>

\* ---- worker()
\* ++active_threads
WStart(w) ==
    /\ wpc[w] = "start"
    /\ active_threads' = active_threads + 1
    /\ SetW(w, "check_stop")
    /\ UNCHANGED <<harnessVars, variant, tasks, thread_count, threads, stop, run_mutex,
                   process_tasks, wtask, wread, callerVars, ghostVars>>

\* while(!stop)
WCheckStop(w) ==
    /\ wpc[w] = "check_stop"
    /\ SetW(w, IF stop THEN "stopped" ELSE "dec")
    /\ UNCHANGED <<harnessVars, variant, tasks, poolVars, wtask, wread, callerVars, ghostVars>>

\* --active_threads
WDec(w) ==
    /\ wpc[w] = "dec"
    /\ active_threads' = active_threads - 1
    /\ SetW(w, "lock")
    /\ UNCHANGED <<harnessVars, variant, tasks, thread_count, threads, stop, run_mutex,
                   process_tasks, wtask, wread, callerVars, ghostVars>>

\* std::unique_lock run_lock{run_mutex}, and the reacquisition inside wait()
WLock(w) ==
    /\ wpc[w] = "lock"
    /\ run_mutex = 0
    /\ run_mutex' = w
    /\ SetW(w, "pred")
    /\ UNCHANGED <<harnessVars, variant, tasks, thread_count, threads, stop, process_tasks,
                   active_threads, wtask, wread, callerVars, ghostVars>>

\* the wait predicate, stop || (process_tasks && ...): a true predicate leaves
\* wait() and the scope, which releases run_mutex
WPred(w) ==
    /\ wpc[w] = "pred"
    /\ IF stop
       THEN run_mutex' = 0 /\ SetW(w, "check_stop2")
       ELSE IF process_tasks
            THEN run_mutex' = run_mutex /\ SetW(w, "pred_empty")
            ELSE run_mutex' = run_mutex /\ SetW(w, "block")
    /\ UNCHANGED <<harnessVars, variant, tasks, thread_count, threads, stop, process_tasks,
                   active_threads, wtask, wread, callerVars, ghostVars>>

\* the wait predicate, ... && !tasks.empty()
WPredEmpty(w) ==
    /\ wpc[w] = "pred_empty"
    /\ IF ~empty(variant, tasks)
       THEN run_mutex' = 0 /\ SetW(w, "check_stop2")
       ELSE run_mutex' = run_mutex /\ SetW(w, "block")
    /\ UNCHANGED <<harnessVars, variant, tasks, thread_count, threads, stop, process_tasks,
                   active_threads, wtask, wread, callerVars, ghostVars>>

\* condition_variable::wait with a false predicate: release run_mutex and
\* block, atomically
WBlock(w) ==
    /\ wpc[w] = "block"
    /\ run_mutex' = 0
    /\ SetW(w, "blocked")
    /\ UNCHANGED <<harnessVars, variant, tasks, thread_count, threads, stop, process_tasks,
                   active_threads, wtask, wread, callerVars, ghostVars>>

\* condition_variable::wait may return without a notification
WSpurious(w) ==
    /\ wpc[w] = "blocked"
    /\ SetW(w, "lock")
    /\ UNCHANGED <<harnessVars, variant, tasks, poolVars, wtask, wread, callerVars, ghostVars>>

\* if(stop) break
WCheckStop2(w) ==
    /\ wpc[w] = "check_stop2"
    /\ SetW(w, IF stop THEN "stopped" ELSE "inc")
    /\ UNCHANGED <<harnessVars, variant, tasks, poolVars, wtask, wread, callerVars, ghostVars>>

\* mutant: a woken worker enters its task loop without counting itself
WInc_NoIncrement(w) ==
    /\ wpc[w] = "inc"
    /\ SetW(w, "loop_pt")
    /\ UNCHANGED <<harnessVars, variant, tasks, poolVars, wtask, wread, callerVars, ghostVars>>

\* ++active_threads
WInc(w) ==
    /\ wpc[w] = "inc"
    /\ active_threads' = active_threads + 1
    /\ SetW(w, "loop_pt")
    /\ UNCHANGED <<harnessVars, variant, tasks, thread_count, threads, stop, run_mutex,
                   process_tasks, wtask, wread, callerVars, ghostVars>>

\* mutant: the loop condition does not test process_tasks
WLoopPt_IgnoresProcessTasks(w) ==
    /\ wpc[w] = "loop_pt"
    /\ SetW(w, "loop_empty")
    /\ UNCHANGED <<harnessVars, variant, tasks, poolVars, wtask, wread, callerVars, ghostVars>>

\* while(process_tasks && ...)
WLoopPt(w) ==
    /\ wpc[w] = "loop_pt"
    /\ SetW(w, IF process_tasks THEN "loop_empty" ELSE "check_stop")
    /\ UNCHANGED <<harnessVars, variant, tasks, poolVars, wtask, wread, callerVars, ghostVars>>

\* while(... && !tasks.empty())
WLoopEmpty(w) ==
    /\ wpc[w] = "loop_empty"
    /\ SetW(w, IF ~empty(variant, tasks) THEN "pop" ELSE "check_stop")
    /\ UNCHANGED <<harnessVars, variant, tasks, poolVars, wtask, wread, callerVars, ghostVars>>

\* if(tasks.try_pop(task)) on a deque variant
WPop(w) ==
    /\ wpc[w] = "pop"
    /\ variant # "spmc_nonblocking"
    /\ LET r == blocking_try_pop(tasks) IN
       /\ tasks' = r.q
       /\ wtask' = [wtask EXCEPT ![w] = r.f]
       /\ SetW(w, IF r.ok THEN "exec" ELSE "loop_pt")
    /\ UNCHANGED <<harnessVars, variant, poolVars, wread, callerVars, ghostVars>>

\* if(tasks.try_pop(task)) on spmc_queue: the fetch_add
WPopFetch(w) ==
    /\ wpc[w] = "pop"
    /\ variant = "spmc_nonblocking"
    /\ LET r == nb_fetch_add(tasks) IN
       /\ tasks' = r.q
       /\ wread' = [wread EXCEPT ![w] = r.read]
    /\ SetW(w, "pop_check")
    /\ UNCHANGED <<harnessVars, variant, poolVars, wtask, callerVars, ghostVars>>

\* spmc_queue::try_pop: if(read < data.size()) { f = data[read]; return true; }
WPopCheck(w) ==
    /\ wpc[w] = "pop_check"
    /\ IF nb_hit(tasks, wread[w])
       THEN /\ wtask' = [wtask EXCEPT ![w] = tasks.data[wread[w] + 1]]
            /\ wread' = [wread EXCEPT ![w] = 0]
            /\ SetW(w, "exec")
       ELSE /\ wtask' = wtask
            /\ wread' = wread
            /\ SetW(w, "pop_reset")
    /\ UNCHANGED <<harnessVars, variant, tasks, poolVars, callerVars, ghostVars>>

\* spmc_queue::try_pop: next_slot = data.size(); return false
WPopReset(w) ==
    /\ wpc[w] = "pop_reset"
    /\ tasks' = nb_reset(tasks)
    /\ wread' = [wread EXCEPT ![w] = 0]
    /\ SetW(w, "loop_pt")
    /\ UNCHANGED <<harnessVars, variant, poolVars, wtask, callerVars, ghostVars>>

\* task()
WExec(w) ==
    /\ wpc[w] = "exec"
    /\ execd' = [execd EXCEPT ![wtask[w]] = @ + 1]
    /\ wtask' = [wtask EXCEPT ![w] = 0]
    /\ SetW(w, "loop_pt")
    /\ UNCHANGED <<harnessVars, variant, tasks, poolVars, wread, callerVars,
                   ctor, npushed, armed, noWorker, calls>>

\* ---- the calling thread: the public interface
\* push_task(task): tasks.push(task)
PushTask ==
    /\ cpc = "idle"
    /\ npushed < MaxTasks
    /\ tasks' = push(tasks, npushed + 1)
    /\ npushed' = npushed + 1
    /\ noWorker' = IF threads = 0 THEN noWorker \cup {npushed + 1} ELSE noWorker
    /\ UNCHANGED <<harnessVars, variant, poolVars, workerVars, callerVars, ctor, execd, armed, calls>>

\* the caller enters run_tasks_and_wait()
CallRun ==
    /\ cpc = "idle"
    /\ calls < MaxCalls
    /\ calls' = calls + 1
    /\ Call("run_empty", "idle")
    /\ UNCHANGED <<harnessVars, variant, tasks, poolVars, workerVars, ccur, cn, ci,
                   ctor, npushed, execd, armed, noWorker>>

\* the caller enters reset(n)
CallReset(n) ==
    /\ cpc = "idle"
    /\ calls < MaxCalls
    /\ calls' = calls + 1
    /\ cn' = n
    /\ Call("reset_begin", "idle")
    /\ UNCHANGED <<harnessVars, variant, tasks, poolVars, workerVars, ccur, ci,
                   ctor, npushed, execd, armed, noWorker>>

\* wait_and_exit(): destroy_threads()
CallWaitAndExit ==
    /\ cpc = "idle"
    /\ calls < MaxCalls
    /\ calls' = calls + 1
    /\ Call("destroy_begin", "idle")
    /\ UNCHANGED <<harnessVars, variant, tasks, poolVars, workerVars, ccur, cn, ci,
                   ctor, npushed, execd, armed, noWorker>>

\* ~deferred_thread_pool(): destroy_threads()
Destructor ==
    /\ cpc = "idle"
    /\ Call("destroy_begin", "destroyed")
    /\ UNCHANGED <<harnessVars, variant, tasks, poolVars, workerVars, ccur, cn, ci, ghostVars>>

\* ---- run_tasks_and_wait()
\* mutant: the early return on an empty queue is left out
RunEmpty_AlwaysArms ==
    /\ cpc = "run_empty"
    /\ Goto("run_arm")
    /\ UNCHANGED <<harnessVars, variant, tasks, poolVars, workerVars, ccur, cn, ci, ghostVars>>

\* if(tasks.empty()) return
RunEmpty ==
    /\ cpc = "run_empty"
    /\ Goto(IF empty(variant, tasks) THEN "run_return" ELSE "run_arm")
    /\ UNCHANGED <<harnessVars, variant, tasks, poolVars, workerVars, ccur, cn, ci, ghostVars>>

\* process_tasks = true
RunArm ==
    /\ cpc = "run_arm"
    /\ process_tasks' = TRUE
    /\ armed' = npushed
    /\ Goto("run_notify")
    /\ UNCHANGED <<harnessVars, variant, tasks, thread_count, threads, stop, run_mutex,
                   active_threads, workerVars, ccur, cn, ci,
                   ctor, npushed, execd, noWorker, calls>>

\* should_run.notify_all()
RunNotify ==
    /\ cpc = "run_notify"
    /\ wpc' = notify_all(wpc)
    /\ Goto("run_poll")
    /\ UNCHANGED <<harnessVars, variant, tasks, poolVars, wtask, wread, ccur, cn, ci, ghostVars>>

\* while(!tasks.empty())
RunPoll ==
    /\ cpc = "run_poll"
    /\ Goto(IF ~empty(variant, tasks) THEN "run_load" ELSE "run_disarm")
    /\ UNCHANGED <<harnessVars, variant, tasks, poolVars, workerVars, ccur, cn, ci, ghostVars>>

\* currently_active_threads = active_threads.load()
RunLoad ==
    /\ cpc = "run_load"
    /\ ccur' = active_threads
    /\ Goto("run_size")
    /\ UNCHANGED <<harnessVars, variant, tasks, poolVars, workerVars, cn, ci, ghostVars>>

\* mutant: the polling loop never notifies again
RunSize_NoRenotify ==
    /\ cpc = "run_size"
    /\ Goto("run_poll")
    /\ ccur' = 0
    /\ UNCHANGED <<harnessVars, variant, tasks, poolVars, workerVars, cn, ci, ghostVars>>

\* the values tasks.size() can give the caller: spmc_blocking_queue::size()
\* reads the deque without queue_mutex, so a read that races with a worker's
\* pop_front may see any value
SizeSeen ==
    IF variant = "spmc_blocking" /\ \E w \in Workers : wpc[w] = "pop"
    THEN 0..(MaxThreads + 1)
    ELSE {size(variant, tasks)}

\* if(currently_active_threads < tasks.size()
\*    && currently_active_threads < thread_count)
RunSize ==
    /\ cpc = "run_size"
    /\ \E sz \in SizeSeen :
           Goto(IF ccur < sz /\ ccur < thread_count
                THEN "run_renotify" ELSE "run_poll")
    /\ ccur' = 0
    /\ UNCHANGED <<harnessVars, variant, tasks, poolVars, workerVars, cn, ci, ghostVars>>

\* should_run.notify_all() inside the polling loop
RunRenotify ==
    /\ cpc = "run_renotify"
    /\ wpc' = notify_all(wpc)
    /\ Goto("run_poll")
    /\ UNCHANGED <<harnessVars, variant, tasks, poolVars, wtask, wread, ccur, cn, ci, ghostVars>>

\* mutant: process_tasks is left set
RunDisarm_LeavesArmed ==
    /\ cpc = "run_disarm"
    /\ Goto("run_wait")
    /\ UNCHANGED <<harnessVars, variant, tasks, poolVars, workerVars, ccur, cn, ci, ghostVars>>

\* process_tasks = false
RunDisarm ==
    /\ cpc = "run_disarm"
    /\ process_tasks' = FALSE
    /\ Goto("run_wait")
    /\ UNCHANGED <<harnessVars, variant, tasks, thread_count, threads, stop, run_mutex,
                   active_threads, workerVars, ccur, cn, ci, ghostVars>>

\* mutant: the second wait loop is missing
RunWait_NoWait ==
    /\ cpc = "run_wait"
    /\ Call("clear_data", "run_return")
    /\ UNCHANGED <<harnessVars, variant, tasks, poolVars, workerVars, ccur, cn, ci, ghostVars>>

\* while(active_threads > 0) yield; then tasks.clear()
RunWait ==
    /\ cpc = "run_wait"
    /\ ~(active_threads > 0)
    /\ Call("clear_data", "run_return")
    /\ UNCHANGED <<harnessVars, variant, tasks, poolVars, workerVars, ccur, cn, ci, ghostVars>>

\* run_tasks_and_wait() returns to its caller
RunReturn ==
    /\ cpc = "run_return"
    /\ Return
    /\ UNCHANGED <<harnessVars, variant, tasks, poolVars, workerVars, ccur, cn, ci, ghostVars>>

\* ---- tasks.clear()
\* data.clear()
ClearData ==
    /\ cpc = "clear_data"
    /\ tasks' = clear_data(tasks)
    /\ IF variant = "spmc_nonblocking" THEN Goto("clear_slot") ELSE Return
    /\ UNCHANGED <<harnessVars, variant, poolVars, workerVars, ccur, cn, ci, ghostVars>>

\* spmc_queue only: next_slot = 0
ClearSlot ==
    /\ cpc = "clear_slot"
    /\ tasks' = clear_slot(tasks)
    /\ Return
    /\ UNCHANGED <<harnessVars, variant, poolVars, workerVars, ccur, cn, ci, ghostVars>>

\* ---- create_threads()
\* mutant: a thread count of 0 is kept
CreateBegin_KeepsZero ==
    /\ cpc = "create_begin"
    /\ ci' = 0
    /\ Call("clear_data", "create_spawn")
    /\ UNCHANGED <<harnessVars, variant, tasks, poolVars, workerVars, ccur, cn, ghostVars>>

\* if(!thread_count) thread_count = 1; then tasks.clear()
CreateBegin ==
    /\ cpc = "create_begin"
    /\ thread_count' = IF thread_count = 0 THEN 1 ELSE thread_count
    /\ ci' = 0
    /\ Call("clear_data", "create_spawn")
    /\ UNCHANGED <<harnessVars, variant, tasks, threads, stop, run_mutex, process_tasks,
                   active_threads, workerVars, ccur, cn, ghostVars>>

\* for(i = 0; i < thread_count; ++i) threads.emplace_back(worker, this)
CreateSpawn ==
    /\ cpc = "create_spawn"
    /\ IF ci < thread_count
       THEN /\ threads' = threads + 1
            /\ wpc' = [wpc EXCEPT ![threads + 1] = "start"]
            /\ ci' = ci + 1
            /\ Goto("create_spawn")
       ELSE /\ threads' = threads
            /\ wpc' = wpc
            /\ ci' = 0
            /\ Goto("create_wait")
    /\ UNCHANGED <<harnessVars, variant, tasks, thread_count, stop, run_mutex, process_tasks,
                   active_threads, wtask, wread, ccur, cn, ghostVars>>

\* while(active_threads > 0) yield
CreateWait ==
    /\ cpc = "create_wait"
    /\ ~(active_threads > 0)
    /\ Return
    /\ UNCHANGED <<harnessVars, variant, tasks, poolVars, workerVars, ccur, cn, ci, ghostVars>>

\* ---- destroy_threads()
\* mutant: the threads are stopped without run_tasks_and_wait()
DestroyBegin_NoDrain ==
    /\ cpc = "destroy_begin"
    /\ Goto(IF threads > 0 THEN "destroy_lock" ELSE "clear_data")
    /\ UNCHANGED <<harnessVars, variant, tasks, poolVars, workerVars, ccur, cn, ci, ghostVars>>

\* mutant: run_tasks_and_wait() is called whether or not a thread exists
DestroyBegin_AlwaysDrains ==
    /\ cpc = "destroy_begin"
    /\ Call("run_empty", "destroy_lock")
    /\ UNCHANGED <<harnessVars, variant, tasks, poolVars, workerVars, ccur, cn, ci, ghostVars>>

\* if(threads.size()) { run_tasks_and_wait(); ... } tasks.clear()
DestroyBegin ==
    /\ cpc = "destroy_begin"
    /\ IF threads > 0 THEN Call("run_empty", "destroy_lock") ELSE Goto("clear_data")
    /\ UNCHANGED <<harnessVars, variant, tasks, poolVars, workerVars, ccur, cn, ci, ghostVars>>

\* mutant: stop is set and notified without holding run_mutex
DestroyLock_NoLock ==
    /\ cpc = "destroy_lock"
    /\ Goto("destroy_stop")
    /\ UNCHANGED <<harnessVars, variant, tasks, poolVars, workerVars, ccur, cn, ci, ghostVars>>

\* std::unique_lock lock{run_mutex}
DestroyLock ==
    /\ cpc = "destroy_lock"
    /\ run_mutex = 0
    /\ run_mutex' = CallerId
    /\ Goto("destroy_stop")
    /\ UNCHANGED <<harnessVars, variant, tasks, thread_count, threads, stop, process_tasks,
                   active_threads, workerVars, ccur, cn, ci, ghostVars>>

\* stop = true
DestroyStop ==
    /\ cpc = "destroy_stop"
    /\ stop' = TRUE
    /\ Goto("destroy_notify")
    /\ UNCHANGED <<harnessVars, variant, tasks, thread_count, threads, run_mutex, process_tasks,
                   active_threads, workerVars, ccur, cn, ci, ghostVars>>

\* should_run.notify_all(), still holding run_mutex
DestroyNotify ==
    /\ cpc = "destroy_notify"
    /\ wpc' = notify_all(wpc)
    /\ Goto("destroy_unlock")
    /\ UNCHANGED <<harnessVars, variant, tasks, poolVars, wtask, wread, ccur, cn, ci, ghostVars>>

\* the lock goes out of scope
DestroyUnlock ==
    /\ cpc = "destroy_unlock"
    /\ run_mutex' = 0
    /\ ci' = 0
    /\ Goto("destroy_join")
    /\ UNCHANGED <<harnessVars, variant, tasks, thread_count, threads, stop, process_tasks,
                   active_threads, workerVars, ccur, cn, ghostVars>>

\* for(auto& it: threads) it.join()
DestroyJoin ==
    /\ cpc = "destroy_join"
    /\ IF ci < threads
       THEN /\ wpc[ci + 1] = "stopped"
            /\ ci' = ci + 1
            /\ Goto("destroy_join")
       ELSE /\ ci' = 0
            /\ Goto("destroy_tclear")
    /\ UNCHANGED <<harnessVars, variant, tasks, poolVars, workerVars, ccur, cn, ghostVars>>

\* threads.clear()
DestroyThreadsClear ==
    /\ cpc = "destroy_tclear"
    /\ threads' = 0
    /\ wpc' = [w \in Workers |-> "none"]
    /\ Goto("destroy_active")
    /\ UNCHANGED <<harnessVars, variant, tasks, thread_count, stop, run_mutex, process_tasks,
                   active_threads, wtask, wread, ccur, cn, ci, ghostVars>>

\* mutant: destroy_threads leaves active_threads as the workers left it
DestroyActive_KeepsCount ==
    /\ cpc = "destroy_active"
    /\ Goto("clear_data")
    /\ UNCHANGED <<harnessVars, variant, tasks, poolVars, workerVars, ccur, cn, ci, ghostVars>>

\* active_threads = 0; then the final tasks.clear()
DestroyActive ==
    /\ cpc = "destroy_active"
    /\ active_threads' = 0
    /\ Goto("clear_data")
    /\ UNCHANGED <<harnessVars, variant, tasks, thread_count, threads, stop, run_mutex,
                   process_tasks, workerVars, ccur, cn, ci, ghostVars>>

\* ---- reset(in_thread_count)
\* run_tasks_and_wait()
ResetBegin ==
    /\ cpc = "reset_begin"
    /\ Call("run_empty", "reset_destroy")
    /\ UNCHANGED <<harnessVars, variant, tasks, poolVars, workerVars, ccur, cn, ci, ghostVars>>

\* destroy_threads()
ResetDestroy ==
    /\ cpc = "reset_destroy"
    /\ Call("destroy_begin", "reset_count")
    /\ UNCHANGED <<harnessVars, variant, tasks, poolVars, workerVars, ccur, cn, ci, ghostVars>>

\* thread_count = std::max<std::size_t>(in_thread_count, 1)
ResetCount ==
    /\ cpc = "reset_count"
    /\ thread_count' = Max(cn, 1)
    /\ Goto("reset_stop")
    /\ UNCHANGED <<harnessVars, variant, tasks, threads, stop, run_mutex, process_tasks,
                   active_threads, workerVars, ccur, cn, ci, ghostVars>>

\* mutant: reset leaves the stop flag of an earlier shutdown set
ResetStop_KeepsStop ==
    /\ cpc = "reset_stop"
    /\ Goto("create_begin")
    /\ UNCHANGED <<harnessVars, variant, tasks, poolVars, workerVars, ccur, cn, ci, ghostVars>>

\* stop = false; then create_threads()
ResetStop ==
    /\ cpc = "reset_stop"
    /\ stop' = FALSE
    /\ Goto("create_begin")
    /\ UNCHANGED <<harnessVars, variant, tasks, thread_count, threads, run_mutex, process_tasks,
                   active_threads, workerVars, ccur, cn, ci, ghostVars>>

Worker(w) ==
    \/ WStart(w) \/ WCheckStop(w) \/ WDec(w) \/ WLock(w) \/ WPred(w)
    \/ WPredEmpty(w) \/ WBlock(w) \/ WCheckStop2(w) \/ WInc(w)
    \/ WLoopPt(w) \/ WLoopEmpty(w) \/ WPop(w) \/ WPopFetch(w)
    \/ WPopCheck(w) \/ WPopReset(w) \/ WExec(w)

\* what the client of the pool decides to do next
Api ==
    \/ PushTask \/ CallRun \/ (\E n \in 0..MaxThreads : CallReset(n))
    \/ CallWaitAndExit \/ Destructor

\* the calling thread inside a member function
Caller ==
    \/ RunEmpty \/ RunArm \/ RunNotify \/ RunPoll \/ RunLoad \/ RunSize
    \/ RunRenotify \/ RunDisarm \/ RunWait \/ RunReturn \/ ClearData \/ ClearSlot
    \/ CreateBegin \/ CreateSpawn \/ CreateWait
    \/ DestroyBegin \/ DestroyLock \/ DestroyStop \/ DestroyNotify
    \/ DestroyUnlock \/ DestroyJoin \/ DestroyThreadsClear \/ DestroyActive
    \/ ResetBegin \/ ResetDestroy \/ ResetCount \/ ResetStop

Next ==
    \/ \E w \in Workers : Worker(w)
    \/ \E w \in Workers : WSpurious(w)
    \/ Api
    \/ Caller

Spec == Init /\ [][Next]_vars

\* Fair scheduling: a thread that can take a step eventually takes it.
\* Nothing obliges the client to make a further call, nor wait() to return
\* spuriously.
Fairness ==
    /\ \A w \in Workers : WF_vars(Worker(w))
    /\ WF_vars(Caller)

FairSpec == Spec /\ Fairness

\* --------------------------------------------------------- a bare queue
\* 'T q;' used directly by threads, as queue_test does
Idle == [op |-> "none", at |-> "idle"]

\* mutant: mpmc_blocking_queue::push is written like the spmc push, unlocked
Locks_PushUnlocked(v, op) ==
    \/ v = "mpmc_blocking" /\ op # "push"
    \/ v = "spmc_blocking" /\ op = "pop"

\* which operations take queue_mutex: all five of mpmc_blocking_queue, only
\* try_pop of spmc_blocking_queue, none of spmc_queue
Locks(v, op) ==
    \/ v = "mpmc_blocking"
    \/ v = "spmc_blocking" /\ op = "pop"

\* leaving the scope of std::unique_lock
Unlock(op) == IF Locks(variant, op) THEN 0 ELSE queue_mutex

\* the elements a clear() discards
Pending(v, q) ==
    IF v = "spmc_nonblocking"
    THEN {q.data[i] : i \in (q.next_slot + 1)..Len(q.data)}
    ELSE {q.data[i] : i \in 1..Len(q.data)}

PopCalls == LET Sum[k \in 0..MaxQThreads] ==
                    IF k = 0 THEN 0 ELSE Sum[k - 1] + popcalls[k]
            IN Sum[MaxQThreads]

QInit ==
    /\ tasks = EmptyQueue
    /\ HarnessIdle
    /\ PoolFields
    /\ ctor = "none"
    /\ thread_count = 0
    /\ cn = 0
    /\ cpc = "none"
    /\ cstk = <<>>

noPool == <<poolVars, workerVars, callerVars, ghostVars>>

\* thread t calls an operation
QEnter(t, op) ==
    /\ qpc[t] = Idle
    /\ qpc' = [qpc EXCEPT ![t] = [op |-> op,
                                  at |-> IF Locks(variant, op) THEN "lock" ELSE "body"]]

QLeave(t) == qpc' = [qpc EXCEPT ![t] = Idle]

Nb == variant = "spmc_nonblocking"

\* thread t reads the cursor: did it read the 0 stored by the latest clear()
SawClear(t) == IF gen.byclear THEN gen.saw \cup {t} ELSE gen.saw \ {t}

\* thread t calls q.push(f), q.try_pop(f), q.clear(), q.empty() or q.size();
\* the element pushed is numbered in call order
QCall(t, op) ==
    /\ QEnter(t, op)
    /\ qarg' = IF op = "push" THEN [qarg EXCEPT ![t] = Len(producer) + 1] ELSE qarg
    /\ producer' = IF op = "push" THEN Append(producer, t) ELSE producer
    /\ popcalls' = IF op = "pop" THEN [popcalls EXCEPT ![t] = @ + 1] ELSE popcalls
    /\ qops' = IF op \in {"clear", "empty", "size"} THEN qops + 1 ELSE qops
    /\ gen' = IF Nb /\ op = "clear"
              THEN [gen EXCEPT !.old = Elems(tasks.data), !.byclear = FALSE, !.saw = {}]
              ELSE gen
    /\ UNCHANGED <<variant, tasks, queue_mutex, qread, qret, qlen, poplog, qfail,
                   cleared, noPool>>

\* std::unique_lock mutex_lock{queue_mutex}
QLock(t) ==
    /\ qpc[t].at = "lock"
    /\ queue_mutex = 0
    /\ queue_mutex' = t
    /\ qpc' = [qpc EXCEPT ![t].at = "body"]
    /\ UNCHANGED <<variant, tasks, qarg, qread, qret, qlen, logVars, noPool>>

\* data.push_back(f)
QPushBody(t) ==
    /\ qpc[t] = [op |-> "push", at |-> "body"]
    /\ tasks' = push(tasks, qarg[t])
    /\ qarg' = [qarg EXCEPT ![t] = 0]
    /\ queue_mutex' = Unlock("push")
    /\ gen' = IF Nb
              THEN [gen EXCEPT !.late = IF gen.failed THEN @ \cup {qarg[t]} ELSE @,
                               !.early = @ \/ \E u \in QThreads : qpc[u].at = "check"]
              ELSE gen
    /\ QLeave(t)
    /\ UNCHANGED <<variant, qread, qret, qlen, producer, poplog, popcalls, qfail,
                   cleared, qops, noPool>>

\* try_pop of the deque variants, under queue_mutex
QPopBody(t) ==
    /\ qpc[t] = [op |-> "pop", at |-> "body"]
    /\ ~Nb
    /\ LET r == blocking_try_pop(tasks) IN
       /\ tasks' = r.q
       /\ poplog' = IF r.ok THEN Append(poplog, r.f) ELSE poplog
       /\ qfail' = IF r.ok THEN qfail ELSE qfail + 1
    /\ queue_mutex' = Unlock("pop")
    /\ QLeave(t)
    /\ UNCHANGED <<variant, qarg, qread, qret, qlen, producer, popcalls, cleared, qops,
                   gen, noPool>>

\* spmc_queue::try_pop: read = next_slot.fetch_add(1)
QPopFetch(t) ==
    /\ qpc[t] = [op |-> "pop", at |-> "body"]
    /\ Nb
    /\ LET r == nb_fetch_add(tasks) IN
       /\ tasks' = r.q
       /\ qread' = [qread EXCEPT ![t] = r.read]
       /\ gen' = [gen EXCEPT !.claimed = @ \cup {r.read},
                             !.hit = IF nb_hit(tasks, r.read) THEN @ \cup {r.read} ELSE @,
                             !.saw = SawClear(t),
                             !.byclear = FALSE]
    /\ qpc' = [qpc EXCEPT ![t].at = "check"]
    /\ UNCHANGED <<variant, queue_mutex, qarg, qret, qlen, producer, poplog, popcalls,
                   qfail, cleared, qops, noPool>>

\* spmc_queue::try_pop: if(read < data.size()) { f = data[read]; return true; }
QPopCheck(t) ==
    /\ qpc[t].at = "check"
    /\ IF nb_hit(tasks, qread[t])
       THEN /\ poplog' = Append(poplog, tasks.data[qread[t] + 1])
            /\ qread' = [qread EXCEPT ![t] = 0]
            /\ qlen' = qlen
            /\ QLeave(t)
       ELSE /\ poplog' = poplog
            /\ qread' = qread
            /\ qlen' = [qlen EXCEPT ![t] = Len(tasks.data)]
            /\ qpc' = [qpc EXCEPT ![t].at = "reset"]
    /\ UNCHANGED <<variant, tasks, queue_mutex, qarg, qret, producer, popcalls,
                   qfail, cleared, qops, gen, noPool>>

\* spmc_queue::try_pop: next_slot = data.size(); return false. The read of
\* data.size() is not ordered with a concurrent push_back: the value stored
\* is the current length or the one the bounds test read.
QPopReset(t) ==
    /\ qpc[t].at = "reset"
    /\ tasks' \in {nb_reset(tasks), nb_reset_seen(tasks, qlen[t])}
    /\ qread' = [qread EXCEPT ![t] = 0]
    /\ qlen' = [qlen EXCEPT ![t] = 0]
    /\ qfail' = qfail + 1
    /\ gen' = [gen EXCEPT !.failed = TRUE,
                          !.stale = @ \/ tasks'.next_slot < Len(tasks.data),
                          !.byclear = FALSE]
    /\ QLeave(t)
    /\ UNCHANGED <<variant, queue_mutex, qarg, qret, producer, poplog, popcalls,
                   cleared, qops, noPool>>

\* the history after statement s of clear()
GenAfterClear(s) ==
    IF ~Nb THEN gen
    ELSE [gen EXCEPT !.claimed = {}, !.hit = {}, !.failed = FALSE, !.late = {},
                     !.stale = FALSE, !.early = FALSE, !.byclear = (@ \/ s = "slot")]

\* thread t executes the k-th statement of clear()
QClearStmt(t, k) ==
    LET s == clear_order(variant)[k] IN
    /\ cleared' = IF s = "data" THEN cleared \cup Pending(variant, tasks) ELSE cleared
    /\ tasks' = ClearStmt(tasks, s)
    /\ gen' = GenAfterClear(s)
    /\ IF k < Len(clear_order(variant))
       THEN qpc' = [qpc EXCEPT ![t].at = "slot"]
       ELSE QLeave(t)
    /\ UNCHANGED <<variant, qarg, qread, qret, qlen, producer, poplog, popcalls, qfail,
                   qops, noPool>>

\* clear(): data.clear()
QClearBody(t) ==
    /\ qpc[t] = [op |-> "clear", at |-> "body"]
    /\ queue_mutex' = Unlock("clear")
    /\ QClearStmt(t, 1)

\* spmc_queue::clear(): next_slot = 0
QClearSlot(t) ==
    /\ qpc[t].at = "slot"
    /\ queue_mutex' = queue_mutex
    /\ QClearStmt(t, 2)

\* empty() of the deque variants
QEmptyBody(t) ==
    /\ qpc[t] = [op |-> "empty", at |-> "body"]
    /\ ~Nb
    /\ qret' = [qret EXCEPT ![t] = IF empty(variant, tasks) THEN 1 ELSE 0]
    /\ queue_mutex' = Unlock("empty")
    /\ QLeave(t)
    /\ UNCHANGED <<variant, tasks, qarg, qread, qlen, logVars, noPool>>

\* size() of the deque variants
QSizeBody(t) ==
    /\ qpc[t] = [op |-> "size", at |-> "body"]
    /\ ~Nb
    /\ qret' = [qret EXCEPT ![t] = size(variant, tasks)]
    /\ queue_mutex' = Unlock("size")
    /\ QLeave(t)
    /\ UNCHANGED <<variant, tasks, qarg, qread, qlen, logVars, noPool>>

\* spmc_queue::size(), also under empty(): index = next_slot.load()
QSizeLoad(t) ==
    /\ qpc[t].op \in {"size", "empty"}
    /\ qpc[t].at = "body"
    /\ Nb
    /\ qread' = [qread EXCEPT ![t] = tasks.next_slot]
    /\ gen' = [gen EXCEPT !.saw = SawClear(t)]
    /\ qpc' = [qpc EXCEPT ![t].at = "len"]
    /\ UNCHANGED <<variant, tasks, queue_mutex, qarg, qret, qlen, producer, poplog,
                   popcalls, qfail, cleared, qops, noPool>>

\* spmc_queue::size(): container_size = data.size() and the result; empty()
\* returns size() == 0
QSizeLen(t) ==
    /\ qpc[t].at = "len"
    /\ LET sz == nb_size_of(qread[t], Len(tasks.data)) IN
       qret' = [qret EXCEPT ![t] = IF qpc[t].op = "size" THEN sz
                                   ELSE IF sz = 0 THEN 1 ELSE 0]
    /\ qread' = [qread EXCEPT ![t] = 0]
    /\ QLeave(t)
    /\ UNCHANGED <<variant, tasks, queue_mutex, qarg, qlen, logVars, noPool>>

\* ---- one producer fills the queue, then threads pop concurrently
\* the producer pushes while nobody has begun to pop
FillPush ==
    /\ PopCalls = 0
    /\ Len(producer) < MaxItems
    /\ QCall(Producer, "push")

\* a consumer calls try_pop once the producer has finished pushing
DrainPop(t) ==
    /\ qpc[Producer].op # "push"
    /\ PopCalls < Len(producer) + MaxExtraPops
    /\ QCall(t, "pop")

FillDrainInit == variant \in Variants /\ QInit

FillDrainNext ==
    \/ FillPush
    \/ \E t \in QThreads : DrainPop(t)
    \/ \E t \in QThreads : QLock(t)
    \/ \E t \in QThreads : QPushBody(t)
    \/ \E t \in QThreads : QPopBody(t)
    \/ \E t \in QThreads : QPopFetch(t)
    \/ \E t \in QThreads : QPopCheck(t)
    \/ \E t \in QThreads : QPopReset(t)

FillDrainSpec == FillDrainInit /\ [][FillDrainNext]_vars

\* ---- mpmc_blocking_queue under arbitrary concurrent use
MpmcInit == variant = "mpmc_blocking" /\ QInit

\* any thread calls any operation
MpmcCall(t, op) ==
    /\ Len(producer) + PopCalls + qops < MaxMpmcCalls
    /\ QCall(t, op)

MpmcNext ==
    \/ \E t \in QThreads : \E op \in {"push", "pop", "clear", "empty", "size"} :
           MpmcCall(t, op)
    \/ \E t \in QThreads : QLock(t)
    \/ \E t \in QThreads : QPushBody(t)
    \/ \E t \in QThreads : QPopBody(t)
    \/ \E t \in QThreads : QClearBody(t)
    \/ \E t \in QThreads : QEmptyBody(t)
    \/ \E t \in QThreads : QSizeBody(t)

MpmcSpec == MpmcInit /\ [][MpmcNext]_vars

\* ---- a quiesced phase: one thread uses a queue of any variant
SeqInit == variant \in Variants /\ QInit

SeqCall(op) ==
    /\ Len(producer) + PopCalls + qops < MaxSeqCalls
    /\ QCall(Producer, op)

SeqNext ==
    \/ \E op \in {"push", "pop", "clear", "empty", "size"} : SeqCall(op)
    \/ QLock(Producer)
    \/ QPushBody(Producer)
    \/ QPopBody(Producer)
    \/ QPopFetch(Producer)
    \/ QPopCheck(Producer)
    \/ QPopReset(Producer)
    \/ QClearBody(Producer)
    \/ QClearSlot(Producer)
    \/ QEmptyBody(Producer)
    \/ QSizeBody(Producer)
    \/ QSizeLoad(Producer)
    \/ QSizeLen(Producer)

SeqSpec == SeqInit /\ [][SeqNext]_vars

\* ---- spmc_queue used out of contract: the producer pushes while threads pop
ConcPushInit == Nb /\ QInit

ConcPush ==
    /\ Len(producer) < MaxItems
    /\ QCall(Producer, "push")

ConcPop(t) ==
    /\ PopCalls < MaxItems + MaxExtraPops
    /\ QCall(t, "pop")

ConcPushNext ==
    \/ ConcPush
    \/ \E t \in QThreads : ConcPop(t)
    \/ \E t \in QThreads : QPushBody(t)
    \/ \E t \in QThreads : QPopFetch(t)
    \/ \E t \in QThreads : QPopCheck(t)
    \/ \E t \in QThreads : QPopReset(t)

ConcPushSpec == ConcPushInit /\ [][ConcPushNext]_vars

\* ---- spmc_queue: the producer pushes and clears while other threads read
ClearRaceInit == Nb /\ QInit

RaceCall(t, op) ==
    /\ Len(producer) + PopCalls + qops < MaxRaceCalls
    /\ IF t = Producer THEN op \in {"push", "clear"} ELSE op \in {"pop", "empty", "size"}
    /\ QCall(t, op)

ClearRaceNext ==
    \/ \E t \in QThreads : \E op \in {"push", "pop", "clear", "empty", "size"} :
           RaceCall(t, op)
    \/ \E t \in QThreads : QPushBody(t)
    \/ \E t \in QThreads : QPopFetch(t)
    \/ \E t \in QThreads : QPopCheck(t)
    \/ \E t \in QThreads : QPopReset(t)
    \/ \E t \in QThreads : QClearBody(t)
    \/ \E t \in QThreads : QClearSlot(t)
    \/ \E t \in QThreads : QSizeLoad(t)
    \/ \E t \in QThreads : QSizeLen(t)

ClearRaceSpec == ClearRaceInit /\ [][ClearRaceNext]_vars

\* ------------------------------------- a pool with a second producer
\* deferred_thread_pool<mpmc_blocking_queue>: besides the thread that calls
\* the interface, a second thread calls push_task while the first is inside
\* run_tasks_and_wait(). mpmc_blocking_queue::push holds queue_mutex, so the
\* push is one step among the other queue operations.
TwoProducerInit == Init /\ variant = "mpmc_blocking"

\* the first thread is inside run_tasks_and_wait(), its final clear included
InsideRun ==
    \/ cpc \in {"run_empty", "run_arm", "run_notify", "run_poll", "run_load", "run_size",
                "run_renotify", "run_disarm", "run_wait", "run_return"}
    \/ cpc = "clear_data" /\ Head(cstk) = "run_return"

\* push_task(task) called by the second thread
ProducerPush ==
    /\ InsideRun
    /\ npushed < MaxTasks
    /\ tasks' = push(tasks, npushed + 1)
    /\ npushed' = npushed + 1
    /\ noWorker' = IF threads = 0 THEN noWorker \cup {npushed + 1} ELSE noWorker
    /\ UNCHANGED <<harnessVars, variant, poolVars, workerVars, callerVars, ctor, execd, armed, calls>>

\* worker() over a deque queue
TwoProducerWorker(w) ==
    \/ WStart(w) \/ WCheckStop(w) \/ WDec(w) \/ WLock(w) \/ WPred(w)
    \/ WPredEmpty(w) \/ WBlock(w) \/ WCheckStop2(w) \/ WInc(w)
    \/ WLoopPt(w) \/ WLoopEmpty(w) \/ WPop(w) \/ WExec(w)

\* the first thread inside a member function; clear() is data.clear()
TwoProducerCaller ==
    \/ RunEmpty \/ RunArm \/ RunNotify \/ RunPoll \/ RunLoad \/ RunSize
    \/ RunRenotify \/ RunDisarm \/ RunWait \/ RunReturn \/ ClearData
    \/ CreateBegin \/ CreateSpawn \/ CreateWait
    \/ DestroyBegin \/ DestroyLock \/ DestroyStop \/ DestroyNotify
    \/ DestroyUnlock \/ DestroyJoin \/ DestroyThreadsClear \/ DestroyActive
    \/ ResetBegin \/ ResetDestroy \/ ResetCount \/ ResetStop

TwoProducerNext ==
    \/ \E w \in Workers : TwoProducerWorker(w)
    \/ \E w \in Workers : WSpurious(w)
    \/ Api
    \/ TwoProducerCaller
    \/ ProducerPush

TwoProducerSpec == TwoProducerInit /\ [][TwoProducerNext]_vars

\* ------------------------------------------------------------ properties
Pushed == 1..npushed

\* a worker that has taken a task off the queue and not finished invoking it
Holding(w) ==
    \/ wpc[w] = "exec"
    \/ wpc[w] = "pop_check" /\ nb_hit(tasks, wread[w])

\* C1: when run_tasks_and_wait() returns on a pool that has a worker, every
\* task pushed (into a pool that had a worker) before the call has been
\* invoked exactly once; no task is ever invoked twice.
C1_ExactlyOnce ==
    /\ \A t \in TaskIds : execd[t] <= 1
    /\ (cpc = "run_return" /\ threads >= 1) =>
           \A t \in Pushed \ noWorker : execd[t] = 1

C1_Witness ==
    /\ cpc = "run_return"
    /\ threads = MaxThreads
    /\ npushed = MaxTasks
    /\ noWorker = {}
    /\ \A t \in Pushed : execd[t] = 1

\* C2: when run_tasks_and_wait() returns the queue is empty, size() is 0,
\* process_tasks is false and no worker executes or holds a popped task.
C2_Quiescent ==
    cpc = "run_return" =>
        /\ empty(variant, tasks)
        /\ size(variant, tasks) = 0
        /\ ~process_tasks
        /\ \A w \in Workers : ~Holding(w)

C2_Witness ==
    /\ cpc = "run_return"
    /\ threads = MaxThreads
    /\ \E t \in Pushed : execd[t] = 1
    /\ \E w \in Workers : wpc[w] \notin {"blocked", "none"}

\* C3: on a pool that has a worker thread, every call of
\* run_tasks_and_wait() eventually returns.
C3_RunReturns == (cpc = "run_empty" /\ threads >= 1) ~> (cpc = "run_return")

C3_Witness ==
    /\ cpc = "run_return"
    /\ calls = MaxCalls
    /\ threads >= 1
    /\ \E t \in Pushed : execd[t] = 1 /\ t > 1

\* the step in which worker w's try_pop takes an element: the pop under
\* queue_mutex, or the fetch_add that returns an index below data.size()
Takes(w) ==
    /\ wpc[w] = "pop"
    /\ \/ wpc'[w] = "exec"
       \/ wpc'[w] = "pop_check" /\ nb_hit(tasks', wread'[w])

\* the task a worker holds
Held(w) == IF wpc[w] = "exec" THEN wtask[w] ELSE tasks.data[wread[w] + 1]

Stopping == threads >= 1 /\ (stop \/ \E w \in Workers : wpc[w] = "stopped")

\* C8: destroy_threads sets stop, and a worker reaches STOPPED, only after
\* every pending task has been invoked exactly once.
C8_DrainsFirst ==
    Stopping =>
        /\ empty(variant, tasks)
        /\ \A w \in Workers : ~Holding(w)
        /\ \A t \in Pushed \ noWorker : execd[t] = 1

C8_Witness ==
    /\ \E w \in Workers : wpc[w] = "stopped"
    /\ npushed = MaxTasks
    /\ noWorker = {}
    /\ calls = 0

\* C9: once destroy_threads has set stop and notified under run_mutex, every
\* worker reaches STOPPED, the joins complete and the call returns.
C9_ShutdownTerminates ==
    /\ (cpc = "destroy_unlock") ~> (cpc = "destroy_tclear")
    /\ (cpc = "destroy_unlock") ~> (cpc \in {"idle", "destroyed"})

C9_Witness ==
    /\ cpc = "destroy_tclear"
    /\ threads = MaxThreads
    /\ \A w \in 1..threads : wpc[w] = "stopped"
    /\ \E t \in Pushed : execd[t] = 1

\* C10 as stated: between calls the stored thread count is at least 1,
\* whichever constructor built the pool.
C10_Original == cpc = "idle" => thread_count >= 1

\* C10 amended: a pool built by deferred_thread_pool(n) has thread_count >= 1
\* between calls, and threads.size() = thread_count when the constructor
\* returns; the default constructor leaves thread_count 0 and no worker
\* thread; a thread count of at least 1 never falls back to 0.
C10_ThreadCount ==
    /\ []((ctor = "sized" /\ cpc \in {"idle", "destroyed"}) => thread_count >= 1)
    /\ []((ctor = "sized" /\ cpc = "idle" /\ calls = 0) => threads = thread_count)
    /\ []((ctor = "default" /\ calls = 0) => (thread_count = 0 /\ threads = 0))
    /\ [](threads <= thread_count)
    /\ [][thread_count >= 1 => thread_count' >= 1]_vars

C10_Witness ==
    /\ ctor = "sized"
    /\ cn = 0
    /\ cpc = "idle"
    /\ calls = MaxCalls
    /\ thread_count = 1
    /\ threads = 1

Quiet == \A t \in QThreads : qpc[t] = Idle

\* C5: spmc_queue, P pushes then M try_pop calls by any threads in any
\* interleaving: no element is returned twice, and once the calls have
\* returned exactly min(M, P) of them returned true; with M >= P every
\* element has been returned.
C5_NonblockingDelivery ==
    variant = "spmc_nonblocking" =>
        LET P == Len(tasks.data)
            M == PopCalls
        IN /\ NoDup(poplog)
           /\ Elems(poplog) \subseteq 1..P
           /\ Len(poplog) <= Min(M, P)
           /\ Quiet => /\ Len(poplog) = Min(M, P)
                       /\ qfail = M - Min(M, P)
                       /\ (M >= P => Elems(poplog) = 1..P)

C5_Witness ==
    /\ variant = "spmc_nonblocking"
    /\ Quiet
    /\ Len(tasks.data) = MaxItems
    /\ PopCalls = MaxItems + MaxExtraPops
    /\ \A t \in QThreads : popcalls[t] >= 2
    /\ \E i \in 1..Len(poplog) : poplog[i] # i

\* C6: one thread pushes N elements and then calls try_pop: the first N calls
\* return true and yield the elements in push order, later calls return false.
C6_FifoQuiesced ==
    (\A t \in QThreads \ {Producer} : popcalls[t] = 0) =>
        LET N == Len(producer)
            done == popcalls[Producer] - (IF qpc[Producer].op = "pop" THEN 1 ELSE 0)
        IN /\ poplog = [i \in 1..Min(done, N) |-> i]
           /\ qfail = Max(done - N, 0)

C6_Witness ==
    /\ variant = "spmc_blocking"
    /\ Quiet
    /\ \A t \in QThreads \ {Producer} : popcalls[t] = 0
    /\ Len(producer) = MaxItems
    /\ popcalls[Producer] = MaxItems + 1
    /\ Len(poplog) = MaxItems
    /\ qfail = 1

\* the elements whose push has returned
PushDone ==
    {i \in 1..Len(producer) : \A t \in QThreads : ~(qpc[t].op = "push" /\ qarg[t] = i)}

\* C7: mpmc_blocking_queue under arbitrary concurrent use: an operation runs
\* its body only while holding queue_mutex; a pushed element is in the queue,
\* or was returned by one try_pop, or was removed by a clear, and exactly one
\* of the three; the elements of one producer leave in its push order.
C7_MpmcSerial ==
    /\ \A t \in QThreads : qpc[t].at = "body" => queue_mutex = t
    /\ NoDup(poplog) /\ NoDup(tasks.data)
    /\ PushDone = Elems(tasks.data) \cup Elems(poplog) \cup cleared
    /\ Elems(tasks.data) \cap Elems(poplog) = {}
    /\ Elems(tasks.data) \cap cleared = {}
    /\ Elems(poplog) \cap cleared = {}
    /\ \A i, j \in 1..Len(poplog) :
           (i < j /\ producer[poplog[i]] = producer[poplog[j]]) => poplog[i] < poplog[j]
    /\ \A i, j \in 1..Len(tasks.data) :
           (i < j /\ producer[tasks.data[i]] = producer[tasks.data[j]])
               => tasks.data[i] < tasks.data[j]
    /\ \A a \in Elems(poplog) : \A b \in Elems(tasks.data) :
           producer[a] = producer[b] => a < b

C7_Witness ==
    /\ \E t \in QThreads : qpc[t].at = "body" /\ queue_mutex = t
    /\ Len(poplog) >= 1
    /\ poplog[1] # 1
    /\ \E a \in Elems(poplog) : \E b \in cleared : producer[a] # producer[b]

\* create_threads() returns to the caller of deferred_thread_pool(n) or reset(n)
CreateReturns == cpc = "create_wait" /\ cpc' = "idle"

\* C11: when deferred_thread_pool(n) or reset(n) returns, get_thread_count()
\* is max(n, 1), exactly max(n, 1) worker threads exist, the stop flag is
\* clear and no worker is STOPPED; no worker is STOPPED between calls.
C11_CountAfterCreate ==
    /\ [][CreateReturns =>
              /\ thread_count' = Max(cn, 1)
              /\ threads' = Max(cn, 1)
              /\ ~stop'
              /\ \A w \in Workers :
                     wpc'[w] = (IF w <= Max(cn, 1) THEN wpc'[w] ELSE "none")
              /\ \A w \in 1..Max(cn, 1) : wpc'[w] \notin {"none", "stopped"}]_vars
    /\ [](cpc = "idle" => \A w \in Workers : wpc[w] # "stopped")

\* reset(0) on a default-constructed pool is about to return
C11_Witness ==
    /\ cpc = "create_wait"
    /\ active_threads = 0
    /\ ctor = "default"
    /\ calls = MaxCalls
    /\ cn = 0
    /\ thread_count = 1
    /\ threads = 1
    /\ wpc[1] = "blocked"

\* the calling thread takes a step
CallerStep == cpc' # cpc

\* C14: run_tasks_and_wait() entered with an empty queue goes straight to
\* its return: process_tasks is false on entry and stays false, no worker is
\* notified, and the queue, stop, active_threads and the workers' positions
\* are left as they were.
C14_EmptyRunNoop ==
    /\ [](cpc = "run_empty" => ~process_tasks)
    /\ [][(cpc = "run_empty" /\ empty(variant, tasks) /\ CallerStep) =>
              /\ cpc' = "run_return"
              /\ cstk' = cstk
              /\ UNCHANGED <<tasks, poolVars, workerVars, armed>>]_vars
    /\ [][(cpc = "run_return" /\ CallerStep) =>
              /\ cpc' = Head(cstk)
              /\ UNCHANGED <<tasks, poolVars, workerVars, armed>>]_vars

\* a second call finds the queue drained by the first, with a worker blocked
C14_Witness ==
    /\ cpc = "run_empty"
    /\ empty(variant, tasks)
    /\ calls = MaxCalls
    /\ cstk = <<"idle">>
    /\ \E t \in Pushed : execd[t] = 1
    /\ \E w \in Workers : wpc[w] = "blocked"

\* positions at which a worker's next step reads or writes the queue:
\* tasks.empty() in the wait predicate and in the loop condition, try_pop
QueueOpPcs == {"pred_empty", "loop_empty", "pop", "pop_check", "pop_reset"}

\* positions at which the caller's next step is a statement of clear()
ClearPcs == {"clear_data", "clear_slot"}

\* C15 as stated: with an spmc queue no worker is inside a queue operation
\* while the caller executes clear or push on that queue.
C15_Original ==
    /\ []((variant # "mpmc_blocking" /\ cpc \in ClearPcs) =>
              \A w \in Workers : wpc[w] \notin QueueOpPcs)
    /\ [][(variant # "mpmc_blocking" /\ cpc = "idle" /\ tasks'.data # tasks.data) =>
              \A w \in Workers : wpc[w] \notin QueueOpPcs]_vars

\* the step in which thread t's clear() returns
ClearDone(t) == qpc[t].op = "clear" /\ qpc'[t] = Idle

\* C12: in a quiesced phase, when clear() returns the queue equals a newly
\* constructed one (empty backing container, cursor 0): empty() is true,
\* size() is 0, the next try_pop returns false; no element that a clear
\* removed is ever returned.
C12_ClearLikeNew ==
    /\ [][ClearDone(Producer) =>
              /\ tasks' = EmptyQueue
              /\ empty(variant, tasks')
              /\ size(variant, tasks') = 0
              /\ IF Nb THEN ~nb_hit(nb_fetch_add(tasks').q, nb_fetch_add(tasks').read)
                       ELSE ~blocking_try_pop(tasks').ok]_vars
    /\ [](Elems(poplog) \cap cleared = {})

\* spmc_queue: a try_pop failed, a clear removed an element, and an element
\* pushed after that clear was returned
C12_Witness ==
    /\ Nb
    /\ Quiet
    /\ qfail >= 1
    /\ ~gen.failed
    /\ \E a \in Elems(poplog) : \E c \in cleared : a > c

\* the step in which thread t's size() or empty() returns
SizeDone(t) == qpc[t].op \in {"size", "empty"} /\ qpc'[t] = Idle

\* C13: in a quiesced phase with K pushes and J try_pops, none of which found
\* the queue empty, size() is K - J and empty() is true exactly when K = J;
\* a call of size() or empty() returns these values.
C13_SizeCounts ==
    /\ []((Quiet /\ qfail = 0 /\ cleared = {}) =>
             /\ size(variant, tasks) = Len(producer) - Len(poplog)
             /\ empty(variant, tasks) <=> Len(producer) = Len(poplog))
    /\ [][(SizeDone(Producer) /\ qfail = 0 /\ cleared = {}) =>
             qret'[Producer] = IF qpc[Producer].op = "size"
                               THEN Len(producer) - Len(poplog)
                               ELSE IF Len(producer) = Len(poplog) THEN 1 ELSE 0]_vars

\* spmc_queue: size() returned 1 after three pushes and two pops
C13_Witness ==
    /\ Nb
    /\ Quiet
    /\ qfail = 0
    /\ qops = 1
    /\ Len(producer) = 3
    /\ Len(poplog) = 2
    /\ qret[Producer] = 1

\* the step in which thread t's try_pop receives its index from fetch_add
FetchStep(t) == qpc[t] = [op |-> "pop", at |-> "body"] /\ qpc'[t].at = "check"

\* C16 as stated: an index handed out by fetch_add, to a try_pop that
\* succeeds or fails, is handed to no other try_pop of the generation.
C16_Original == [][\A t \in QThreads : FetchStep(t) => tasks.next_slot \notin gen.claimed]_vars

\* C16 amended: an index that was below data.size() when fetch_add handed it
\* out is handed to no other try_pop of the generation, and these are the
\* indices of the elements returned; an index at or beyond the length is
\* not covered, the miss branch rewinds the cursor to the length.
C16_HitIndexUnique ==
    /\ [][\A t \in QThreads : FetchStep(t) => tasks.next_slot \notin gen.hit]_vars
    /\ [](gen.hit \subseteq gen.claimed)
    /\ [](\A i \in gen.hit : i < Len(tasks.data))
    /\ [](Nb => Cardinality(gen.hit) =
                  Len(poplog) + Cardinality({t \in QThreads : qpc[t].at = "check"
                                               /\ qread[t] \in gen.hit}))

\* every element was claimed, a try_pop has failed, and a later try_pop has
\* been handed the index equal to the length
C16_Witness ==
    /\ Nb
    /\ Len(tasks.data) = MaxItems
    /\ gen.hit = 0..(MaxItems - 1)
    /\ qfail >= 1
    /\ \E t \in QThreads : qpc[t].at = "check" /\ qread[t] = MaxItems

\* C17 as stated: an element pushed after a try_pop failed is returned by no
\* later try_pop of the generation.
C17_Original == Elems(poplog) \cap gen.late = {}

\* C17 amended: in a quiesced phase a failed try_pop leaves the cursor equal
\* to the length, so an element pushed afterwards is not skipped: every
\* pushed element has been returned, or was removed by clear, or is still
\* ahead of the cursor.
C17_LatePushReturned ==
    (Nb /\ Quiet) =>
        /\ tasks.next_slot <= Len(tasks.data)
        /\ (gen.failed /\ gen.late = {}) => tasks.next_slot = Len(tasks.data)
        /\ 1..Len(producer) = Elems(poplog) \cup cleared \cup Pending(variant, tasks)
        /\ gen.late \subseteq Elems(poplog) \cup Pending(variant, tasks)
        /\ NoDup(poplog)

\* an element pushed after a failed try_pop has been returned
C17_Witness ==
    /\ Nb
    /\ Quiet
    /\ gen.late \cap Elems(poplog) # {}
    /\ gen.late \cap Pending(variant, tasks) # {}

\* try_pop calls that have not returned
InFlight == Cardinality({t \in QThreads : qpc[t].op = "pop"})

\* the step in which thread t's failing try_pop stores the cursor
ResetStep(t) == qpc[t].at = "reset" /\ qpc'[t] = Idle

\* C18: spmc_queue without concurrent push or clear: the cursor is at most
\* the length plus the number of try_pop calls in flight; with none in
\* flight it is at most the length, and equal to it once a try_pop failed;
\* every failing try_pop stores the same value, the length.
C18_CursorBounded ==
    /\ [](Nb =>
             /\ tasks.next_slot <= Len(tasks.data) + InFlight
             /\ InFlight = 0 =>
                    /\ tasks.next_slot <= Len(tasks.data)
                    /\ qfail > 0 => tasks.next_slot = Len(tasks.data))
    /\ [][\A t \in QThreads : ResetStep(t) => tasks'.next_slot = Len(tasks.data)]_vars

\* every thread is inside a try_pop that overshot the full queue
C18_Witness ==
    /\ Nb
    /\ Len(tasks.data) = MaxItems
    /\ InFlight = MaxQThreads
    /\ tasks.next_slot = MaxItems + MaxQThreads

\* C19: spmc_queue::clear() empties the vector before it stores 0 into the
\* cursor: a thread whose read of the cursor (in size(), empty() or try_pop)
\* returned the 0 stored by a clear then sees a vector without any element
\* from before that clear, and its try_pop returns none of them.
C19_ClearOrder ==
    /\ [][(~gen.byclear /\ gen'.byclear) => tasks.data = <<>>]_vars
    /\ [](\A t \in QThreads :
              (t \in gen.saw /\ qpc[t].at \in {"len", "check"}) =>
                  Elems(tasks.data) \cap gen.old = {})
    /\ [][\A t \in QThreads :
              (t \in gen.saw /\ qpc[t].at = "check" /\ Len(poplog') > Len(poplog)) =>
                  poplog'[Len(poplog')] \notin gen.old]_vars

\* a reader has read the 0 stored by a clear that removed elements, and is
\* about to read the length of a vector that holds a newer element
C19_Witness ==
    /\ gen.old # {}
    /\ cleared # {}
    /\ tasks.data # <<>>
    /\ \E t \in QThreads : t \in gen.saw /\ qpc[t].at \in {"len", "check"}

\* elements the cursor has passed that no try_pop returned or is returning
Skipped ==
    {i \in 1..Len(tasks.data) :
        /\ i <= tasks.next_slot
        /\ i \notin Elems(poplog)
        /\ \A t \in QThreads : ~(qpc[t].at = "check" /\ qread[t] = i - 1)}

Taken == {t \in TaskIds : execd[t] > 0 \/ \E w \in Workers : Holding(w) /\ Held(w) = t}

\* C21: in a pool fed by its single calling thread, whatever the queue
\* variant and the number of workers, tasks leave the queue in push order:
\* when a worker takes a task, no task pushed after it has been taken
\* already, and every task pushed before it has left the queue.
C21_TakenInPushOrder ==
    [][\A w \in Workers : Takes(w) =>
           /\ Held(w)' \in Pushed
           /\ \A t \in Taken : t < Held(w)'
           /\ \A i \in 1..Len(tasks'.data) :
                  (variant # "spmc_nonblocking" \/ i > tasks'.next_slot)
                      => tasks'.data[i] > Held(w)']_vars

\* the task pushed second has been invoked while the one pushed first is
\* still held by the other worker
C21_Witness ==
    /\ npushed = MaxTasks
    /\ execd[MaxTasks] = 1
    /\ \E w \in Workers : Holding(w) /\ Held(w) = 1
    /\ execd[1] = 0

\* positions of a worker that has decremented active_threads and waits on
\* should_run: acquiring run_mutex, evaluating the predicate, or blocked
WaitingPcs == {"lock", "pred", "pred_empty", "block", "blocked"}

\* C22 as stated: when create_threads() returns, every created worker has
\* started, has incremented and then decremented active_threads, and is
\* waiting on the condition variable.
C22_Original ==
    [][CreateReturns => \A w \in 1..threads' : wpc'[w] \in WaitingPcs]_vars

\* positions at which a worker is inside tasks.try_pop(task), or invoking
\* the task it popped
TryPopPcs == {"pop", "pop_check", "pop_reset", "exec"}

\* the step in which push_task runs tasks.push(task)
PushStep == cpc = "idle" /\ npushed' = npushed + 1

\* C23: with a single calling thread, no worker is inside try_pop or
\* invoking a popped task while the caller executes a statement of
\* tasks.clear() (in run_tasks_and_wait, create_threads or destroy_threads)
\* or tasks.push() in push_task, whatever the queue variant.
C23_NoPopDuringPushOrClear ==
    /\ [](cpc \in ClearPcs => \A w \in Workers : wpc[w] \notin TryPopPcs)
    /\ [][PushStep => \A w \in Workers : wpc[w] \notin TryPopPcs]_vars

\* run_tasks_and_wait() clears the queue while a worker that was woken has
\* not yet incremented active_threads again
C23_Witness ==
    /\ cpc \in ClearPcs
    /\ Head(cstk) = "run_return"
    /\ threads = MaxThreads
    /\ \E w \in Workers : wpc[w] = "inc"
    /\ \E t \in Pushed : execd[t] = 1

\* positions of a worker between an increment of active_threads and the
\* decrement that follows it
CountedPcs ==
    {"check_stop", "dec", "loop_pt", "loop_empty", "pop", "pop_check", "pop_reset", "exec"}

\* the workers that have incremented active_threads and not yet decremented it
Counted == {w \in Workers : wpc[w] \in CountedPcs}

\* the workers that have returned from worker()
Exited == {w \in Workers : wpc[w] = "stopped"}

\* worker threads created and not yet joined: destroy_threads joins
\* threads[0] .. threads[ci - 1] before threads.clear()
Unjoined ==
    IF cpc = "destroy_join" THEN threads - ci
    ELSE IF cpc = "destroy_tclear" THEN 0
    ELSE threads

\* the step --active_threads of worker w
DecStep(w) == wpc[w] = "dec" /\ wpc'[w] = "lock"

\* C24 as stated: in every reachable state active_threads lies between 0
\* and the number of worker threads created and not yet joined, and it is
\* never decremented while it is 0.
C24_Original ==
    /\ [](0 <= active_threads /\ active_threads <= Unjoined)
    /\ [][\A w \in Workers : DecStep(w) => active_threads > 0]_vars

\* C24 amended: active_threads is never negative, never decremented while
\* 0, and never above the number of worker threads created; every running
\* worker contributes 0 or 1 according to its position, and a worker that
\* has returned contributes 0 or 1 (1 when it left through while(!stop)),
\* a contribution that outlives its join until destroy_threads stores 0;
\* the counter is 0 whenever the pool has no worker thread between calls
\* or create_threads starts.
C24_CounterBounded ==
    /\ [](0 <= active_threads /\ active_threads <= thread_count)
    /\ [](cpc # "destroy_active" =>
              /\ Cardinality(Counted) <= active_threads
              /\ active_threads <= Cardinality(Counted) + Cardinality(Exited)
              /\ active_threads <= threads)
    /\ []((cpc \in {"idle", "destroyed", "create_begin"} /\ threads = 0) => active_threads = 0)
    /\ [][\A w \in Workers : DecStep(w) => active_threads > 0]_vars

\* every worker has been joined and one of them has left its increment in
\* the counter, which destroy_threads is about to reset
C24_Witness ==
    /\ cpc = "destroy_tclear"
    /\ threads = MaxThreads
    /\ active_threads = 1
    /\ Exited = Workers
    /\ Head(cstk) = "reset_count"

\* positions of the caller in run_tasks_and_wait() between the early return
\* and the store process_tasks = false
RunLoopPcs == {"run_arm", "run_notify", "run_poll", "run_load", "run_size", "run_renotify"}

\* C25: on a pool without worker threads (default-constructed, or after
\* wait_and_exit) that holds a pending task, run_tasks_and_wait() sets
\* process_tasks and then polls a queue that stays non-empty, never leaving
\* its first loop, also when reset() calls it; destroy_threads on such a
\* pool skips run_tasks_and_wait(), clears the queue and returns, and a task
\* pushed into a pool without workers is never invoked.
C25_NoWorkerPool ==
    /\ [][(threads = 0 /\ cpc = "run_empty" /\ ~empty(variant, tasks) /\ CallerStep)
              => cpc' = "run_arm"]_vars
    /\ [][(threads = 0 /\ cpc \in RunLoopPcs) =>
              /\ cpc' \in RunLoopPcs
              /\ cstk' = cstk
              /\ threads' = 0
              /\ tasks' = tasks]_vars
    /\ []((threads = 0 /\ cpc \in RunLoopPcs \ {"run_arm"}) =>
              (process_tasks /\ ~empty(variant, tasks)))
    /\ [][(threads = 0 /\ cpc = "destroy_begin") =>
              (cpc' = "clear_data" /\ cstk' = cstk /\ tasks' = tasks)]_vars
    /\ [][(threads = 0 /\ cpc \in ClearPcs /\ cpc' \notin ClearPcs) =>
              (tasks' = EmptyQueue /\ cpc' = Head(cstk))]_vars
    /\ [](\A t \in noWorker : execd[t] = 0)
    /\ (threads = 0 /\ cpc = "destroy_begin") ~> (cpc \in {"idle", "destroyed", "reset_count"})

\* reset() on a default-constructed pool with pending tasks is polling
C25_Witness ==
    /\ ctor = "default"
    /\ threads = 0
    /\ cpc = "run_size"
    /\ process_tasks
    /\ cstk = <<"reset_destroy", "idle">>
    /\ npushed = MaxTasks
    /\ Len(tasks.data) = MaxTasks

\* run_tasks_and_wait() after wait_and_exit() re-notifies although no
\* thread exists
C25_WitnessAfterExit ==
    /\ ctor = "sized"
    /\ threads = 0
    /\ stop
    /\ cpc = "run_renotify"
    /\ noWorker # {}

\* how often task t occurs in the queue
InQueue(t) == Cardinality({i \in 1..Len(tasks.data) : tasks.data[i] = t})

\* the workers invoking task t
Invoking(t) == Cardinality({w \in Workers : wpc[w] = "exec" /\ wtask[w] = t})

\* pushed tasks that are not in the queue, not held and were never invoked
Lost == {t \in Pushed : InQueue(t) = 0 /\ Invoking(t) = 0 /\ execd[t] = 0}

\* C26: mpmc-backed pool, a second thread pushes while the first is inside
\* run_tasks_and_wait(): a task is in the queue, being invoked or invoked
\* once, and never two of these, so no task is invoked twice; a task is
\* lost only by a clear(), which removes whatever the queue holds; the
\* queue is empty when the caller leaves its polling loop, so what the
\* final clear() of a pool with workers removes was pushed after
\* process_tasks was set; a worker takes a task while process_tasks is
\* false only while the caller waits for active_threads to reach 0.
C26_SecondProducer ==
    /\ [](\A t \in TaskIds : execd[t] <= 1)
    /\ [](\A t \in Pushed : InQueue(t) + Invoking(t) + execd[t] <= 1)
    /\ [][Lost' # Lost =>
              /\ cpc = "clear_data"
              /\ tasks'.data = <<>>
              /\ Lost' = Lost \cup Elems(tasks.data)]_vars
    /\ [][(cpc = "run_poll" /\ cpc' = "run_disarm") => tasks.data = <<>>]_vars
    /\ []((threads >= 1 /\ cpc = "clear_data" /\ Head(cstk) = "run_return") =>
              \A t \in Elems(tasks.data) : t > armed)
    /\ [][\A w \in Workers : (Takes(w) /\ ~process_tasks) => cpc = "run_wait"]_vars

\* run_tasks_and_wait() returns on a pool with workers after its final
\* clear() removed a task that was never invoked
C26_Witness ==
    /\ cpc = "run_return"
    /\ threads >= 1
    /\ ~process_tasks
    /\ npushed = MaxTasks
    /\ execd[1] = 1
    /\ Lost = {MaxTasks}
    /\ armed < MaxTasks

\* a worker invokes a task pushed after the caller saw the queue empty,
\* while process_tasks is already false
C26_WitnessLateInvoke ==
    /\ cpc = "run_wait"
    /\ ~process_tasks
    /\ \E w \in Workers : wpc[w] = "exec" /\ wtask[w] > armed

====
